---- MODULE Spec2Model ----
(***************************************************************************)
(* Employee-churn dashboard (emp-churn-step-by-step/src/app7.py).          *)
(*                                                                         *)
(* The model covers the request handler serve, the per-process loader      *)
(* init_app, the per-session init, the handlers home, threshold and        *)
(* render_employee, the ranker get_varimp and the card bookkeeping         *)
(* add_card / clear_cards.                                                 *)
(*                                                                         *)
(* Numbers: a probability or a slider value v is held as the integer       *)
(* 100*v (0.5 is 50); a mean is held as the exact fraction num/den.        *)
(* Column names are sequences of tokens ("contrib_" followed by "A" is     *)
(* the column contrib_A), so that the substring test and the replace of    *)
(* get_varimp act on the name's parts.                                     *)
(***************************************************************************)
EXTENDS Integers, Sequences, FiniteSets, TLC

(* ----------------------------- bounds ---------------------------------- *)
\* longest predictions table drawn for the files on disk
MaxRows == 2
\* how many times the model counts init running in one session
MaxInits == 2
\* largest top_n handed to get_varimp in the ranking specification
MaxTopN == 4
\* largest absolute attribution value in the ranking specification
MaxAbs == 2

\* the browsers: two are what it takes for one to disturb another
Sessions == {1, 2}

(* ------------------------ program constants ---------------------------- *)
\* ui.slider(min=0, max=0.9, step=0.1): the slider's values, times 100
SliderMin == 0
SliderMax == 90
SliderStep == 10
SliderDomain == {t \in SliderMin..SliderMax : t % SliderStep = 0}
\* q.client.threshold = 0.5
DefaultThreshold == 50
\* get_varimp(shapley_vals, top_n=5)
DefaultTopN == 5
\* q.args.threshold is None
None == -1

(* --------------------------- small helpers ----------------------------- *)
Abs(x) == IF x < 0 THEN -x ELSE x

RECURSIVE SumSeq(_)
SumSeq(s) == IF s = <<>> THEN 0 ELSE Head(s) + SumSeq(Tail(s))

Range(s) == {s[i] : i \in DOMAIN s}

\* s[::-1]
Reverse(s) == [i \in 1..Len(s) |-> s[Len(s) + 1 - i]]

\* DataFrame.head(n) for n >= 0
HeadN(s, n) == SubSeq(s, 1, IF n < Len(s) THEN n ELSE Len(s))

\* Python's round() and the rounding of format(): the integer nearest to
\* num/den, a tie going to the even neighbour (num >= 0, den > 0)
RoundHalfEven(num, den) ==
    LET q == num \div den
        r == num % den
    IN  IF 2 * r < den THEN q
        ELSE IF 2 * r > den THEN q + 1
        ELSE IF q % 2 = 0 THEN q ELSE q + 1

\* "{0:.0%}".format(num/den)
FormatPercent(num, den) == ToString(RoundHalfEven(100 * num, den)) \o "%"

(* ------------------------------ get_varimp ----------------------------- *)
\* a column name is a sequence of tokens; only "contrib_" contains 'contrib'
ContribTag == "contrib_"
BiasColumn == <<"contrib_", "bias">>

\* 'contrib' in i
HasContrib(name) == \E k \in DOMAIN name : name[k] = ContribTag

RECURSIVE JoinTokens(_)
JoinTokens(name) == IF name = <<>> THEN "" ELSE Head(name) \o JoinTokens(Tail(name))

\* Series.str.replace("contrib_", ""): every occurrence of the tag goes
StripContrib(name) == JoinTokens(SelectSeq(name, LAMBDA tok : tok # ContribTag))

IsFeatureColumn(name) == HasContrib(name) /\ name # BiasColumn

\* indices of the columns get_varimp keeps, in column order
RECURSIVE KeptFrom(_, _)
KeptFrom(cols, i) ==
    IF i > Len(cols) THEN <<>>
    ELSE IF IsFeatureColumn(cols[i]) THEN <<i>> \o KeptFrom(cols, i + 1)
    ELSE KeptFrom(cols, i + 1)

\* varimp.abs().mean() of one column: sum of |v| over the rows, over the row count
MeanAbs(shapley_vals, i) ==
    [num |-> SumSeq([r \in 1..Len(shapley_vals.rows) |-> Abs(shapley_vals.rows[r][i])]),
     den |-> Len(shapley_vals.rows)]

\* a.Importance > b.Importance on exact fractions
ImpGreater(a, b) == a.Importance.num * b.Importance.den > b.Importance.num * a.Importance.den

\* sort_values(by="Importance", ascending=True): the wrong direction
RECURSIVE InsertAsc(_, _)
InsertAsc(x, sorted) ==
    IF sorted = <<>> THEN <<x>>
    ELSE IF ImpGreater(Head(sorted), x) THEN <<x>> \o sorted
    ELSE <<Head(sorted)>> \o InsertAsc(x, Tail(sorted))

\* place x in a list sorted by descending Importance, after its equals
RECURSIVE InsertDesc(_, _)
InsertDesc(x, sorted) ==
    IF sorted = <<>> THEN <<x>>
    ELSE IF ImpGreater(x, Head(sorted)) THEN <<x>> \o sorted
    ELSE <<Head(sorted)>> \o InsertDesc(x, Tail(sorted))

\* sort_values(by="Importance", ascending=False); columns of equal
\* importance keep their column order
RECURSIVE SortDesc(_)
SortDesc(s) ==
    IF s = <<>> THEN <<>>
    ELSE LET n == Len(s) IN InsertDesc(s[n], SortDesc(SubSeq(s, 1, n - 1)))

RECURSIVE SortAsc(_)
SortAsc(s) ==
    IF s = <<>> THEN <<>>
    ELSE LET n == Len(s) IN InsertAsc(s[n], SortAsc(SubSeq(s, 1, n - 1)))

\* get_varimp with the wrong sort direction
get_varimp_sorted_ascending(shapley_vals, top_n) ==
    LET kept == KeptFrom(shapley_vals.cols, 1)
        frame == [k \in 1..Len(kept) |->
                     [Feature |-> StripContrib(shapley_vals.cols[kept[k]]),
                      Importance |-> MeanAbs(shapley_vals, kept[k])]]
    IN  Reverse(HeadN(SortAsc(frame), top_n))

get_varimp(shapley_vals, top_n) ==
    LET kept == KeptFrom(shapley_vals.cols, 1)
        frame == [k \in 1..Len(kept) |->
                     [Feature |-> StripContrib(shapley_vals.cols[kept[k]]),
                      Importance |-> MeanAbs(shapley_vals, kept[k])]]
    IN  Reverse(HeadN(SortDesc(frame), top_n))

(* ------------------------- the files on disk --------------------------- *)
\* one line of static/predictions.csv: the score column is 'Attrition.Yes'
Employee(id, score, years) ==
    ("EmployeeNumber" :> id) @@ ("Attrition.Yes" :> score) @@ ("YearsAtCompany" :> years)

\* the employees a predictions file is drawn from (scores are 100 * probability)
EmployeePool ==
    {Employee(1, 60, 4), Employee(2, 30, 2), Employee(3, 50, 7)}

\* the predictions files: every non-empty table of distinct employees, in any order
PredictionFiles ==
    UNION {{f \in [1..n -> EmployeePool] : \A i, j \in 1..n : i # j => f[i] # f[j]} : n \in 1..MaxRows}

\* the attribution files: an id column, one contrib_ column per feature, the bias column
\* (one row per employee of the pool)
ShapleyColumns == <<<<"EmployeeNumber">>, <<"contrib_", "A">>, <<"contrib_", "B">>, BiasColumn>>

ShapleyFiles ==
    {[cols |-> ShapleyColumns,
      rows |-> << <<1, 9, -3, 20>>, <<2, -1, 3, 20>>, <<3, 2, -6, 20>> >>],
     [cols |-> ShapleyColumns,
      rows |-> << <<1, 1, -4, 20>>, <<2, 5, 2, 20>>, <<3, 0, 3, 20>> >>]}

\* the attribution file that goes with a predictions file: the rows of its
\* employees, in its order
ShapleyFor(f, p) ==
    [f EXCEPT !.rows = [i \in 1..Len(p) |->
        f.rows[CHOOSE r \in 1..Len(f.rows) : f.rows[r][1] = p[i]["EmployeeNumber"]]]]

\* the attribution tables handed to get_varimp in the ranking specification:
\* three features and the bias, a first row drawn from the bounded values
\* and a fixed second row
RankColumns ==
    <<<<"EmployeeNumber">>, <<"contrib_", "A">>, <<"contrib_", "B">>, <<"contrib_", "C">>, BiasColumn>>

RankTables ==
    {[cols |-> RankColumns, rows |-> << <<1, x, y, z, 20>>, <<2, 1, -2, 0, 20>> >>] :
        x \in -MaxAbs..MaxAbs, y \in -MaxAbs..MaxAbs, z \in -MaxAbs..MaxAbs}

(* ------------------------------- state --------------------------------- *)
\* One request is one step: a handler runs to its end, or to the exception
\* that ends it, before another request is served (the handlers' only real
\* suspension is q.page.save(), their last statement). The requests are a
\* first visit, a slider change to a value of the slider, a pick of a row of
\* the table, and a request naming home, the handler @on() registers.
VARIABLES
    disk,        \* the two csv files under static/
    app,         \* q.app: initialized, predictions, shapley
    client,      \* q.client of every browser: initialized, cards, dark_mode, threshold
    page,        \* the saved page of every browser
    calc,        \* the locals of the most recent run of home in every session
    loads,       \* how many times init_app has run
    inits,       \* how many times init has run in every session
    lastSlider,  \* the value of every session's most recent slider change
    rankIn,      \* the arguments of a call of get_varimp
    rankOut      \* its result

vars == <<disk, app, client, page, calc, loads, inits, lastSlider, rankIn, rankOut>>

\* the cards home adds through add_card, and the ones init places itself
HomeCards == {"predictions_card", "varimp_card", "description_card",
              "threshold_card", "stats_card", "table_card"}
InitCards == {"meta", "header", "footer"}

NoTable == <<>>
NoShapley == [cols |-> <<>>, rows |-> <<>>]

NoClient == [initialized |-> FALSE, cards |-> {}, dark_mode |-> FALSE, threshold |-> None]

EmptyPage ==
    [present |-> {}, meta |-> "", header |-> "", footer |-> "",
     predictions_card |-> <<>>, varimp_card |-> <<>>, description_card |-> "",
     threshold_card |-> None, stats_card |-> <<>>,
     table_card |-> [columns |-> <<>>, rows |-> <<>>]]

NoCalc ==
    [called |-> FALSE, raised |-> FALSE, threshold |-> None, slider |-> None,
     varimp |-> <<>>, churned |-> <<>>, count |-> 0, fraction |-> [num |-> 0, den |-> 1]]

\* the state slot q.client names in a request of session s: one per browser
ClientKeyShared(s) == 1

ClientKey(s) == s

(* ------------------------------ init_app ------------------------------- *)
\* DataFrame.rename(columns={'Attrition.Yes': "Prediction"}) on one row
RenameRow(row) ==
    [c \in (DOMAIN row \ {"Attrition.Yes"}) \cup {"Prediction"} |->
        IF c = "Prediction" THEN row["Attrition.Yes"] ELSE row[c]]

init_app(a) ==
    [a EXCEPT !.predictions = [i \in 1..Len(disk.predictions) |-> RenameRow(disk.predictions[i])],
              !.shapley = disk.shapley]

(* ----------------------- add_card and clear_cards ---------------------- *)
\* q is the part of the request a handler changes: q.client and the page
\* changes it has made so far (sent by q.page.save())

add_card(q, name, card) ==
    [q EXCEPT !.client.cards = @ \cup {name}, !.page[name] = card, !.page.present = @ \cup {name}]

\* del q.page[name]
DelCard(pg, name) == [pg EXCEPT ![name] = EmptyPage[name], !.present = @ \ {name}]

RECURSIVE DelCards(_, _)
DelCards(pg, names) ==
    IF names = {} THEN pg
    ELSE LET n == CHOOSE x \in names : TRUE IN DelCards(DelCard(pg, n), names \ {n})

\* clear_cards that deletes every card of the page
clear_cards_whole_page(q) ==
    [client |-> [q.client EXCEPT !.cards = {}],
     page |-> DelCards(q.page, q.page.present)]

\* clear_cards(q) with ignore=[]
clear_cards(q) ==
    [client |-> [q.client EXCEPT !.cards = {}],
     page |-> DelCards(q.page, q.client.cards)]

(* -------------------------------- home --------------------------------- *)
\* threshold = q.client.threshold if q.args.threshold is None else q.args.threshold
home_threshold(cl, argThreshold) ==
    IF argThreshold = None THEN cl.threshold ELSE argThreshold

\* the filter with < in place of >
churned_employees_below(predictions, threshold) ==
    SelectSeq(predictions, LAMBDA row : row["Prediction"] < threshold)

\* the filter with >= in place of >
churned_employees_inclusive(predictions, threshold) ==
    SelectSeq(predictions, LAMBDA row : row["Prediction"] >= threshold)

\* q.app.predictions[q.app.predictions['Prediction'] > threshold]
churned_employees(predictions, threshold) ==
    SelectSeq(predictions, LAMBDA row : row["Prediction"] > threshold)

\* cols = ['EmployeeNumber'] + [i[0] for i in varimp] + ["Prediction"]
table_columns(varimp) ==
    <<"EmployeeNumber">> \o [i \in 1..Len(varimp) |-> varimp[i].Feature] \o <<"Prediction">>

\* the three ui.stat values of the stats card, for a non-empty selection
stats_values(churned, predictions) ==
    <<ToString(Len(churned)),
      FormatPercent(Len(churned), Len(predictions)),
      ToString(RoundHalfEven(
          SumSeq([i \in 1..Len(churned) |-> churned[i]["YearsAtCompany"]]), Len(churned)))>>

\* the rows of the table card: one ui.table_row per selected record, named
\* str(row['EmployeeNumber']); the cells are not modelled
table_rows(churned) == [i \in 1..Len(churned) |-> ToString(churned[i]["EmployeeNumber"])]

\* lines 114-134 of home once varimp, threshold and the selection are known:
\* q is the request after the first four cards. round() of the mean of no
\* rows is round(nan), a ValueError raised while the stats card is being
\* built (line 120): the stats and table cards are then never added.
home_cards(a, q, threshold, varimp, churned) ==
    [q |-> IF Len(churned) = 0 THEN q
           ELSE add_card(add_card(q, "stats_card", stats_values(churned, a.predictions)),
                         "table_card",
                         [columns |-> table_columns(varimp),
                          rows |-> table_rows(churned)]),
     calc |-> [called |-> TRUE, raised |-> Len(churned) = 0, threshold |-> threshold,
               slider |-> threshold, varimp |-> varimp, churned |-> churned,
               count |-> Len(churned),
               fraction |-> [num |-> Len(churned), den |-> Len(a.predictions)]],
     raised |-> Len(churned) = 0]

\* lines 80-112 of home once varimp and threshold are known
home_filter(a, q, threshold, varimp) ==
    home_cards(a,
               add_card(add_card(add_card(add_card(clear_cards(q),
                   "predictions_card",
                   [i \in 1..Len(a.predictions) |-> a.predictions[i]["Prediction"]]),
                   "varimp_card", varimp),
                   "description_card", "Use the slider below"),
                   "threshold_card", threshold),
               threshold, varimp,
               churned_employees(a.predictions, threshold))

\* home ranking the attributions of the selected employees only
home_ranking_selected(a, q, argThreshold) ==
    home_filter(a, q, home_threshold(q.client, argThreshold),
        get_varimp([a.shapley EXCEPT !.rows = SelectSeq(@, LAMBDA r :
                        \E i \in 1..Len(a.predictions) :
                            /\ a.predictions[i]["EmployeeNumber"] = r[1]
                            /\ a.predictions[i]["Prediction"]
                                   > home_threshold(q.client, argThreshold))],
                   DefaultTopN))

\* home(q): q is [client, page]; a is q.app; argThreshold is q.args.threshold.
\* The result holds q as the handler leaves it, the handler's locals (calc)
\* and whether it raised.
home(a, q, argThreshold) ==
    home_filter(a, q, home_threshold(q.client, argThreshold), get_varimp(a.shapley, DefaultTopN))

(* -------------------------------- init --------------------------------- *)
\* init(q) up to its call of home: the session's fields and the three cards
\* init places without add_card
init_before_home(q) ==
    [client |-> [q.client EXCEPT !.cards = {}, !.dark_mode = FALSE,
                                 !.threshold = DefaultThreshold],
     page |-> [q.page EXCEPT !.present = @ \cup InitCards,
                             !.meta = "Employee Churn Prediction",
                             !.header = "Employee Churn Prediction",
                             !.footer = "Made with H2O Wave"]]

init(a, q, argThreshold) == home(a, init_before_home(q), argThreshold)

(* -------------------------------- serve -------------------------------- *)
\* what serve does to q.app before anything else (lines 15-17)
serve_app(a) == IF a.initialized THEN a ELSE [init_app(a) EXCEPT !.initialized = TRUE]

\* the end of serve: q.client keeps what the handlers assigned; a handler
\* that raised ends the request before q.page.save() (line 26), and the page
\* changes of the request are lost
serve_end(s, k, a, r, fresh) ==
    /\ app' = a
    /\ loads' = IF app.initialized THEN loads ELSE loads + 1
    /\ inits' = [inits EXCEPT ![s] = IF fresh /\ @ < MaxInits THEN @ + 1 ELSE @]
    /\ client' = [client EXCEPT ![k] = r.q.client]
    /\ page' = [page EXCEPT ![s] = IF r.raised THEN page[s] ELSE r.q.page]
    /\ calc' = [calc EXCEPT ![s] = r.calc]

\* run_on (line 25): handler is TRUE when the request names threshold or
\* home, and home runs; r is the request as lines 20-22 leave it
serve_run_on(s, k, a, r, fresh, handler, argThreshold) ==
    IF r.raised THEN serve_end(s, k, a, r, fresh)
    ELSE IF handler
    THEN serve_end(s, k, a,
                   home(a, IF fresh THEN [r.q EXCEPT !.client.initialized = TRUE] ELSE r.q,
                        argThreshold),
                   fresh)
    ELSE serve_end(s, k, a,
                   [r EXCEPT !.q.client.initialized = IF fresh THEN TRUE ELSE @], fresh)

\* serve for a request of session s
serve(s, handler, argThreshold) ==
    serve_run_on(s, ClientKey(s), serve_app(app),
                 IF ~client[ClientKey(s)].initialized
                 THEN init(serve_app(app), [client |-> client[ClientKey(s)], page |-> page[s]],
                           argThreshold)
                 ELSE [q |-> [client |-> client[ClientKey(s)], page |-> page[s]],
                       calc |-> calc[s], raised |-> FALSE],
                 ~client[ClientKey(s)].initialized, handler, argThreshold)

\* a browser comes to the app: a request with no arguments
Connect(s) ==
    /\ ~client[ClientKey(s)].initialized
    /\ UNCHANGED <<disk, lastSlider, rankIn, rankOut>>
    /\ serve(s, FALSE, None)

\* the slider (trigger=True) is moved to t: run_on runs threshold, which runs home
Threshold(s, t) ==
    /\ client[ClientKey(s)].initialized
    /\ lastSlider' = [lastSlider EXCEPT ![s] = t]
    /\ UNCHANGED <<disk, rankIn, rankOut>>
    /\ serve(s, TRUE, t)

\* a request that names home (@on() registers it) and carries no threshold
HomeEvent(s) ==
    /\ client[ClientKey(s)].initialized
    /\ UNCHANGED <<disk, lastSlider, rankIn, rankOut>>
    /\ serve(s, TRUE, None)

\* a row of the table is picked: run_on runs render_employee, whose
\* q['table_card'] raises TypeError (a Q has no item access) before anything
\* is assigned; the request ends there
RenderEmployee(s) ==
    /\ client[ClientKey(s)].initialized
    /\ app.initialized
    /\ UNCHANGED vars

Init ==
    /\ disk \in {[predictions |-> p, shapley |-> ShapleyFor(f, p)] :
                    p \in PredictionFiles, f \in ShapleyFiles}
    /\ app = [initialized |-> FALSE, predictions |-> NoTable, shapley |-> NoShapley]
    /\ client = [k \in Sessions |-> NoClient]
    /\ page = [s \in Sessions |-> EmptyPage]
    /\ calc = [s \in Sessions |-> NoCalc]
    /\ loads = 0
    /\ inits = [s \in Sessions |-> 0]
    /\ lastSlider = [s \in Sessions |-> None]
    /\ rankIn = [shapley_vals |-> NoShapley, top_n |-> 0]
    /\ rankOut = [done |-> FALSE, value |-> <<>>]

Next ==
    \/ \E s \in Sessions : Connect(s)
    \/ \E s \in Sessions, t \in SliderDomain : Threshold(s, t)
    \/ \E s \in Sessions : HomeEvent(s)
    \/ \E s \in Sessions : RenderEmployee(s)

Spec == Init /\ [][Next]_vars

(* ------------------- the ranking specification ------------------------- *)
\* get_varimp on its own: the arguments are drawn at the start, Rank applies it
InitRank ==
    /\ disk = [predictions |-> <<Employee(1, 60, 4)>>,
               shapley |-> [cols |-> RankColumns, rows |-> << <<1, 0, 0, 0, 20>> >>]]
    /\ app = [initialized |-> FALSE, predictions |-> NoTable, shapley |-> NoShapley]
    /\ client = [k \in Sessions |-> NoClient]
    /\ page = [s \in Sessions |-> EmptyPage]
    /\ calc = [s \in Sessions |-> NoCalc]
    /\ loads = 0
    /\ inits = [s \in Sessions |-> 0]
    /\ lastSlider = [s \in Sessions |-> None]
    /\ rankIn \in [shapley_vals : RankTables, top_n : 1..MaxTopN]
    /\ rankOut = [done |-> FALSE, value |-> <<>>]

Rank ==
    /\ ~rankOut.done
    /\ rankOut' = [done |-> TRUE, value |-> get_varimp(rankIn.shapley_vals, rankIn.top_n)]
    /\ UNCHANGED <<disk, app, client, page, calc, loads, inits, lastSlider, rankIn>>

NextRank == Rank

SpecRank == InitRank /\ [][NextRank]_vars

(* ------------------------------ the claims ----------------------------- *)
\* what the claims say of a table and a threshold, stated from the table
ScoresOf(predictions) == {predictions[i]["Prediction"] : i \in 1..Len(predictions)}
MinScore(predictions) == CHOOSE m \in ScoresOf(predictions) : \A x \in ScoresOf(predictions) : m <= x
MaxScore(predictions) == CHOOSE m \in ScoresOf(predictions) : \A x \in ScoresOf(predictions) : m >= x
Above(predictions, t) == {i \in 1..Len(predictions) : predictions[i]["Prediction"] > t}
IdsOf(rows) == {rows[i]["EmployeeNumber"] : i \in 1..Len(rows)}
SessionThreshold(s) == IF lastSlider[s] = None THEN DefaultThreshold ELSE lastSlider[s]
Rendered(s) == calc[s].called /\ ~calc[s].raised

\* the page shows exactly the rows of the table above t, in the table's order
ShowsSelection(s, t) ==
    LET sel == Above(app.predictions, t) IN
    /\ {"stats_card", "table_card"} \subseteq page[s].present
    /\ page[s].stats_card[1] = ToString(Cardinality(sel))
    /\ page[s].stats_card[2] = FormatPercent(Cardinality(sel), Len(app.predictions))
    /\ Len(page[s].table_card.rows) = Cardinality(sel)
    /\ \A i \in 1..Len(page[s].table_card.rows) :
          \E k \in sel :
             /\ page[s].table_card.rows[i] = ToString(app.predictions[k]["EmployeeNumber"])
             /\ Cardinality({j \in sel : j < k}) = i - 1

\* C1: after a render by home at threshold t, the selection is exactly the
\* rows with Prediction > t (equal is out), and the page shows the count,
\* count/total and one table row per selected record, in dataset order,
\* named by EmployeeNumber -- for every table and every slider value.
C1_RenderShowsSelection ==
    \A s \in Sessions :
        calc[s].called =>
            /\ calc[s].threshold \in SliderDomain
            /\ IdsOf(calc[s].churned)
                  = {app.predictions[i]["EmployeeNumber"] : i \in Above(app.predictions, calc[s].threshold)}
            /\ ShowsSelection(s, calc[s].threshold)

\* what does hold of C1: every render that completes shows its selection
CompletedRenderShowsSelection ==
    \A s \in Sessions :
        Rendered(s) =>
            /\ IdsOf(calc[s].churned)
                  = {app.predictions[i]["EmployeeNumber"] : i \in Above(app.predictions, calc[s].threshold)}
            /\ ShowsSelection(s, calc[s].threshold)

\* C2: a render whose selection is empty completes: it does not raise, the
\* stats card shows count 0 and fraction 0% and the table card is produced.
C2_EmptySelectionRenders ==
    \A s \in Sessions :
        (calc[s].called /\ calc[s].count = 0) =>
            /\ ~calc[s].raised
            /\ ShowsSelection(s, calc[s].threshold)

\* C3 as written, of the renders that complete: the fraction is in [0,1], is
\* 1.0 whenever t <= the minimum score and 0.0 whenever t >= the maximum score.
C3_FractionAtOrBelowMinimum ==
    \A s \in Sessions :
        Rendered(s) =>
            /\ 0 <= calc[s].fraction.num /\ calc[s].fraction.num <= calc[s].fraction.den
            /\ calc[s].threshold <= MinScore(app.predictions)
                   => calc[s].fraction.num = calc[s].fraction.den
            /\ calc[s].threshold >= MaxScore(app.predictions) => calc[s].fraction.num = 0

\* C3 (amended): the fraction home computes is in [0,1], is 1.0 whenever t is
\* strictly below the minimum score and 0.0 whenever t >= the maximum score.
C3_FractionBounds ==
    \A s \in Sessions :
        calc[s].called =>
            /\ calc[s].fraction.den = Len(app.predictions)
            /\ 0 <= calc[s].fraction.num /\ calc[s].fraction.num <= calc[s].fraction.den
            /\ calc[s].threshold < MinScore(app.predictions)
                   => calc[s].fraction.num = calc[s].fraction.den
            /\ calc[s].threshold >= MaxScore(app.predictions) => calc[s].fraction.num = 0

\* one session below the minimum score with fraction 1.0, the other at the
\* minimum score with a smaller fraction
C3_Witness ==
    \E a, b \in Sessions :
        /\ calc[a].called /\ calc[b].called
        /\ calc[a].threshold < MinScore(app.predictions)
        /\ calc[a].fraction.num = calc[a].fraction.den
        /\ calc[b].threshold = MinScore(app.predictions)
        /\ calc[b].fraction.num < calc[b].fraction.den

\* C4: for one table and thresholds t1 < t2, the count at t1 is >= the count
\* at t2 and the rows selected at t2 are among those selected at t1.
C4_CountMonotone ==
    \A a, b \in Sessions :
        (calc[a].called /\ calc[b].called /\ calc[a].threshold < calc[b].threshold) =>
            /\ calc[a].count >= calc[b].count
            /\ calc[a].count = Len(calc[a].churned)
            /\ calc[b].count = Len(calc[b].churned)
            /\ Range(calc[b].churned) \subseteq Range(calc[a].churned)

\* two sessions on one table, the higher threshold selecting fewer rows, but some
C4_Witness ==
    \E a, b \in Sessions :
        /\ calc[a].called /\ calc[b].called
        /\ calc[a].threshold < calc[b].threshold
        /\ calc[a].count > calc[b].count
        /\ calc[b].count > 0

\* the claim's reading of an attribution table: the feature columns are the
\* contrib_ columns but the bias, a feature's name is what follows the tag,
\* its importance the sum of |v| over the rows divided by the row count
RankFeatures(t) ==
    {i \in 1..Len(t.cols) : Len(t.cols[i]) = 2 /\ t.cols[i][1] = "contrib_" /\ t.cols[i][2] # "bias"}
RankSum(t, i) == SumSeq([r \in 1..Len(t.rows) |-> IF t.rows[r][i] < 0 THEN -t.rows[r][i] ELSE t.rows[r][i]])
RankMin(a, b) == IF a < b THEN a ELSE b

\* C5: get_varimp(shapley, N) gives min(N, features) pairs, each a non-bias
\* contrib_ column under its name without the tag with its mean absolute
\* value, no column twice, in ascending order of importance, and no column
\* left out is more important than one listed.
C5_TopNAscending ==
    rankOut.done =>
        LET t == rankIn.shapley_vals
            out == rankOut.value
            F == RankFeatures(t)
        IN  /\ Len(out) = RankMin(rankIn.top_n, Cardinality(F))
            /\ Len(out) <= rankIn.top_n
            /\ \A k \in 1..Len(out) : out[k].Feature \notin {"bias", "contrib_bias"}
            /\ \E pick \in [1..Len(out) -> F] :
                  /\ \A j, k \in 1..Len(out) : j # k => pick[j] # pick[k]
                  /\ \A k \in 1..Len(out) :
                        /\ out[k].Feature = t.cols[pick[k]][2]
                        /\ out[k].Importance = [num |-> RankSum(t, pick[k]), den |-> Len(t.rows)]
                  /\ \A j, k \in 1..Len(out) : j < k => RankSum(t, pick[j]) <= RankSum(t, pick[k])
                  /\ \A i \in F \ Range(pick) :
                        \A k \in 1..Len(out) : RankSum(t, i) <= RankSum(t, pick[k])

\* a ranking that had to leave a feature out, of features of different importance
C5_Witness ==
    /\ rankOut.done
    /\ Len(rankOut.value) = 2
    /\ rankIn.top_n = 2
    /\ ImpGreater(rankOut.value[2], rankOut.value[1])
    /\ \E i \in RankFeatures(rankIn.shapley_vals) :
          RankSum(rankIn.shapley_vals, i) * rankOut.value[1].Importance.den
              < rankOut.value[1].Importance.num

\* C6: whatever their thresholds, two renders give the same importance list
\* (in home and on the varimp card) and the same table columns.
C6_RankingIgnoresThreshold ==
    \A a, b \in Sessions :
        /\ (calc[a].called /\ calc[b].called) => calc[a].varimp = calc[b].varimp
        /\ (Rendered(a) /\ Rendered(b)) =>
              /\ page[a].varimp_card = page[b].varimp_card
              /\ page[a].varimp_card = calc[a].varimp
              /\ page[a].table_card.columns = page[b].table_card.columns
              /\ page[a].table_card.columns
                    = <<"EmployeeNumber">> \o [i \in 1..Len(calc[a].varimp) |-> calc[a].varimp[i].Feature]
                        \o <<"Prediction">>

\* two completed renders at different thresholds that select different rows
C6_Witness ==
    \E a, b \in Sessions :
        /\ Rendered(a) /\ Rendered(b)
        /\ page[a].threshold_card # page[b].threshold_card
        /\ page[a].table_card.rows # page[b].table_card.rows
        /\ Len(page[a].varimp_card) = 2

\* a request of session s
Request(s) ==
    \/ Connect(s)
    \/ \E t \in SliderDomain : Threshold(s, t)
    \/ HomeEvent(s)
    \/ RenderEmployee(s)

\* C7: a request of one session leaves every other session's q.client, page
\* and threshold as they were.
C7_SessionsIsolated ==
    [][\A s \in Sessions : Request(s) =>
          \A o \in Sessions \ {s} :
             /\ client'[ClientKey(o)] = client[ClientKey(o)]
             /\ page'[o] = page[o]
             /\ calc'[o] = calc[o]
             /\ lastSlider'[o] = lastSlider[o]]_vars

\* both sessions have moved their sliders, to different values, and show them
C7_Witness ==
    \E a, b \in Sessions :
        /\ a # b
        /\ lastSlider[a] # None /\ lastSlider[b] # None
        /\ lastSlider[a] # lastSlider[b]
        /\ Rendered(a) /\ page[a].threshold_card = lastSlider[a]
        /\ Rendered(b) /\ page[b].threshold_card = lastSlider[b]

\* C8: every render by home filters with, and puts on the slider, the value
\* of the session's most recent slider change (0.5 before the first), a
\* value of [0, 0.9].
C8_RenderUsesLastSlider ==
    \A s \in Sessions :
        calc[s].called =>
            /\ calc[s].threshold = SessionThreshold(s)
            /\ calc[s].slider = SessionThreshold(s)
            /\ calc[s].threshold \in SliderMin..SliderMax

\* what does hold of C8: a render the slider triggers uses the slider's value
SliderRenderUsesSlider ==
    [][\A s \in Sessions, t \in SliderDomain :
          Threshold(s, t) => (calc'[s].threshold = t /\ calc'[s].slider = t)]_vars

\* C9: init_app loads the tables once, before any render; init runs once per
\* session, before the session's first render; the loaded tables stay as
\* loaded.
C9_LoadOnceInitOnce ==
    /\ loads <= 1
    /\ \A s \in Sessions :
          /\ inits[s] <= 1
          /\ calc[s].called => (loads = 1 /\ inits[s] >= 1)
    /\ app.initialized =>
          /\ app.shapley = disk.shapley
          /\ Len(app.predictions) = Len(disk.predictions)
          /\ \A i \in 1..Len(app.predictions) :
                app.predictions[i]["Prediction"] = disk.predictions[i]["Attrition.Yes"]

\* what does hold of C9: one load, before any render, and the tables stay as loaded
LoadOnceTablesKept ==
    /\ loads <= 1
    /\ \A s \in Sessions : calc[s].called => (loads = 1 /\ inits[s] >= 1)
    /\ app.initialized =>
          /\ app.shapley = disk.shapley
          /\ Len(app.predictions) = Len(disk.predictions)
          /\ \A i \in 1..Len(app.predictions) :
                app.predictions[i]["Prediction"] = disk.predictions[i]["Attrition.Yes"]

\* C10: once init has completed, and after every render that completes, the
\* tracked cards are exactly the six of home, each is on the page, and the
\* meta, header and footer cards are still on the page.
C10_TrackedCards ==
    \A s \in Sessions :
        (client[ClientKey(s)].initialized /\ Rendered(s)) =>
            /\ client[ClientKey(s)].cards = HomeCards
            /\ client[ClientKey(s)].cards \subseteq page[s].present
            /\ InitCards \subseteq page[s].present
            /\ page[s].present = HomeCards \cup InitCards

\* a render completed after a slider change away from the default
C10_Witness ==
    \E s \in Sessions :
        /\ client[ClientKey(s)].initialized /\ Rendered(s)
        /\ lastSlider[s] # None
        /\ page[s].threshold_card = lastSlider[s]
        /\ lastSlider[s] # DefaultThreshold

====
